---- MODULE Spec2Model ----
(***************************************************************************)
(* Model of the Pokedex search component (src/src/App.jsx): five state     *)
(* hooks, the debounce effect with its cancellable timer, the asynchronous *)
(* lookup searchPokemon with its try / catch / finally, and the four       *)
(* conditionally rendered panels.                                          *)
(*                                                                         *)
(* Strings the code inspects character by character (the search term) are  *)
(* sequences of one-character strings, so that trim() and toLowerCase()    *)
(* are computed.  State setters called in one synchronous run of a handler *)
(* (or of one continuation after an await) take effect together, as with   *)
(* React's batching; the setters are modelled as applied whenever the code *)
(* calls them.                                                             *)
(***************************************************************************)
EXTENDS Integers, Sequences, FiniteSets, TLC

VARIABLES
  searchTerm, pokemon, loading, error, hasSearched,  \* the five state hooks
  mounted,      \* the component is on screen
  timers,       \* timers armed by setTimeout and not yet fired or cleared
  timer,        \* id held by the cleanup closure of the last effect run
  nextId,       \* id the next setTimeout returns
  cancelled,    \* timers removed by clearTimeout while still pending
  fired,        \* ids of the timers whose callback has run
  inflight,     \* requests awaiting completion, with the answer each will get
  requests      \* every fetch issued, in order

vars == <<searchTerm, pokemon, loading, error, hasSearched,
          mounted, timers, timer, nextId, cancelled, fired, inflight, requests>>

hooks == <<searchTerm, pokemon, loading, error, hasSearched>>

\* ------------------------------------------------------------------ bounds
\* number of timers setTimeout may create (the mount timer included)
MaxTimers == 3
\* number of network requests fetch may issue
MaxRequests == 2

\* --------------------------------------------------------------- constants
\* quiet interval of the debounce timer
DebounceMs == 500

Null == "null"
\* a nullable object: None is null, Some(x) is the object x
None == <<>>
Some(x) == <<x>>
Undefined == "undefined"

NotFoundMsg == "Pokemon no encontrado"
\* messages of exceptions the runtime throws
FetchFailedMsg == "Failed to fetch"
JsonErrorMsg == "Unexpected end of JSON input"
TypeErrorMsg == "Cannot read properties of undefined"

\* ------------------------------------------------------------ search terms
EMPTY == <<>>
BLANK == <<" ">>
PIK == <<"p", "i", "k">>
PIKACHU == <<"p", "i", "k", "a", "c", "h", "u">>
PIKACHU_CAP == <<"P", "i", "k", "a", "c", "h", "u">>

\* values a keystroke can leave in the input
Terms == {EMPTY, BLANK, PIK, PIKACHU, PIKACHU_CAP}

IsSpace(c) == c = " "

\* String.prototype.trim
RECURSIVE TrimStart(_)
TrimStart(s) ==
  IF s = <<>> THEN <<>>
  ELSE IF IsSpace(Head(s)) THEN TrimStart(Tail(s)) ELSE s

RECURSIVE TrimEnd(_)
TrimEnd(s) ==
  IF s = <<>> THEN <<>>
  ELSE IF IsSpace(s[Len(s)]) THEN TrimEnd(SubSeq(s, 1, Len(s) - 1)) ELSE s

Trim(s) == TrimEnd(TrimStart(s))

LowerChar(c) == IF c = "P" THEN "p" ELSE c

\* String.prototype.toLowerCase
ToLowerCase(s) == [i \in 1..Len(s) |-> LowerChar(s[i])]

\* !name.trim() : the empty string is the only falsy string
IsBlank(name) == Trim(name) = <<>>

\* --------------------------------------------------------- catalog service
ArtUrl == "official-artwork.png"
SpriteUrl == "front_default.png"

\* shapes of data.sprites a successful response can carry: hasOther and
\* hasArtwork say whether sprites.other and sprites.other['official-artwork']
\* are objects, artwork is sprites.other['official-artwork'].front_default
SpriteShapes == {
  [hasOther |-> TRUE, hasArtwork |-> TRUE, artwork |-> ArtUrl, front_default |-> SpriteUrl],
  [hasOther |-> TRUE, hasArtwork |-> TRUE, artwork |-> Null, front_default |-> SpriteUrl],
  [hasOther |-> TRUE, hasArtwork |-> TRUE, artwork |-> Undefined, front_default |-> SpriteUrl],
  [hasOther |-> TRUE, hasArtwork |-> FALSE, artwork |-> Undefined, front_default |-> SpriteUrl],
  [hasOther |-> FALSE, hasArtwork |-> FALSE, artwork |-> Undefined, front_default |-> SpriteUrl] }

NoSprites ==
  [hasOther |-> FALSE, hasArtwork |-> FALSE, artwork |-> Undefined, front_default |-> Undefined]

\* names the catalog knows
Catalog == {PIKACHU}

\* answers the network can give to a request for name: fetch rejects, a
\* non-success status, a body that is not JSON, or a record of the catalog
Responses(name) ==
  {[kind |-> k, sprites |-> NoSprites] : k \in {"reject", "status", "badjson"}}
  \cup (IF name \in Catalog
        THEN {[kind |-> "ok", sprites |-> sp] : sp \in SpriteShapes}
        ELSE {})

\* the parsed body of a successful answer
Body(resp) ==
  [name |-> "pikachu", id |-> 25, sprites |-> resp.sprites,
   types |-> << [type |-> [name |-> "electric"]] >>,
   height |-> 4, weight |-> 60,
   abilities |-> << [ability |-> [name |-> "static"]],
                    [ability |-> [name |-> "lightning-rod"]] >>]

\* data.sprites.other['official-artwork'].front_default throws a TypeError
\* when a level of the path is undefined
ImageThrows(sp) == ~sp.hasOther \/ ~sp.hasArtwork

\* data.sprites.other['official-artwork'].front_default || data.sprites.front_default
Image(sp) ==
  IF sp.artwork \in {Null, Undefined, ""}
  THEN sp.front_default
  ELSE sp.artwork

\* the object passed to setPokemon
MapPokemon(data) ==
  [name |-> data.name,
   image |-> Image(data.sprites),
   id |-> data.id,
   types |-> [i \in 1..Len(data.types) |-> data.types[i].type.name],
   height |-> data.height,
   weight |-> data.weight,
   abilities |-> [i \in 1..Len(data.abilities) |-> data.abilities[i].ability.name]]

\* ----------------------------------------------------------------- timers
\* setTimeout(cb, 500) with cb closing over the term of that render
SetTimeout(ts, id, term) ==
  ts \cup {[id |-> id, term |-> term, delay |-> DebounceMs, elapsed |-> 0]}

\* a cleanup that leaves the previous timer armed
ClearTimeoutKeeps(ts, id) == ts

\* clearTimeout(id): a no-op when the timer has fired already
ClearTimeout(ts, id) == {t \in ts : t.id # id}

Min(a, b) == IF a < b THEN a ELSE b

\* ------------------------------------------------------------------ panels
LoadingPanel == loading
ErrorPanel == error # "" /\ hasSearched
ResultPanel == pokemon # None /\ ~loading
WelcomePanel == ~hasSearched /\ ~loading

Panels ==
  (IF LoadingPanel THEN {"loading"} ELSE {}) \cup
  (IF ErrorPanel THEN {"error"} ELSE {}) \cup
  (IF ResultPanel THEN {"result"} ELSE {}) \cup
  (IF WelcomePanel THEN {"welcome"} ELSE {})

\* ------------------------------------------------------------------- state
Init ==
  /\ searchTerm = EMPTY
  /\ pokemon = None
  /\ loading = FALSE
  /\ error = ""
  /\ hasSearched = FALSE
  /\ mounted = TRUE
  \* the effect runs once on mount and arms a timer for the empty term
  /\ timers = SetTimeout({}, 1, EMPTY)
  /\ timer = 1
  /\ nextId = 2
  /\ cancelled = {}
  /\ fired = {}
  /\ inflight = {}
  /\ requests = <<>>

\* handleInputChange, then the effect's cleanup and the effect again
HandleInputChange(value) ==
  /\ mounted
  /\ value # searchTerm
  /\ nextId <= MaxTimers
  /\ searchTerm' = value
  /\ timers' = SetTimeout(ClearTimeout(timers, timer), nextId, value)
  /\ cancelled' = cancelled \cup {t \in timers : t.id = timer}
  /\ timer' = nextId
  /\ nextId' = nextId + 1
  /\ UNCHANGED <<pokemon, loading, error, hasSearched, mounted, fired, inflight, requests>>

\* the component is torn down: the effect's cleanup runs
Unmount ==
  /\ mounted
  /\ mounted' = FALSE
  /\ timers' = ClearTimeout(timers, timer)
  /\ cancelled' = cancelled \cup {t \in timers : t.id = timer}
  /\ UNCHANGED <<hooks, timer, nextId, fired, inflight, requests>>

\* time passes while a timer is pending
Advance(d) ==
  /\ \E t \in timers : t.elapsed < t.delay
  /\ timers' = {[t EXCEPT !.elapsed = Min(t.elapsed + d, t.delay)] : t \in timers}
  /\ UNCHANGED <<hooks, mounted, timer, nextId, cancelled, fired, inflight, requests>>

\* an empty branch that forgets to reset hasSearched
SearchEmptyKeepsFlag(name) ==
  /\ IsBlank(name)
  /\ pokemon' = None
  /\ error' = ""
  /\ UNCHANGED <<hasSearched, loading, inflight, requests>>

\* searchPokemon(name), blank name: lines 13-18
SearchEmpty(name) ==
  /\ IsBlank(name)
  /\ pokemon' = None
  /\ error' = ""
  /\ hasSearched' = FALSE
  /\ UNCHANGED <<loading, inflight, requests>>

\* a start that leaves the previous error in place
SearchStartKeepsError(name, tid, resp) ==
  /\ ~IsBlank(name)
  /\ Len(requests) < MaxRequests
  /\ loading' = TRUE
  /\ hasSearched' = TRUE
  /\ requests' = Append(requests, [name |-> ToLowerCase(name), timer |-> tid])
  /\ inflight' = inflight \cup
       {[seq |-> Len(requests) + 1, name |-> ToLowerCase(name), resp |-> resp]}
  /\ UNCHANGED <<pokemon, error>>

\* searchPokemon(name) up to the first await: lines 20-26
SearchStart(name, tid, resp) ==
  /\ ~IsBlank(name)
  /\ Len(requests) < MaxRequests
  /\ loading' = TRUE
  /\ error' = ""
  /\ hasSearched' = TRUE
  /\ requests' = Append(requests, [name |-> ToLowerCase(name), timer |-> tid])
  /\ inflight' = inflight \cup
       {[seq |-> Len(requests) + 1, name |-> ToLowerCase(name), resp |-> resp]}
  /\ UNCHANGED pokemon

\* the debounce timer fires and calls searchPokemon with its term
TimerFires(t) ==
  /\ t \in timers
  /\ t.elapsed >= t.delay
  /\ timers' = timers \ {t}
  /\ fired' = fired \cup {t.id}
  /\ \/ SearchEmpty(t.term)
     \/ \E resp \in Responses(ToLowerCase(t.term)) : SearchStart(t.term, t.id, resp)
  /\ UNCHANGED <<searchTerm, mounted, timer, nextId, cancelled>>

\* a catch without the finally block
CatchNoFinally(r, msg) ==
  /\ error' = msg
  /\ pokemon' = None
  /\ inflight' = inflight \ {r}
  /\ UNCHANGED <<searchTerm, loading, hasSearched, mounted, timers, timer, nextId,
                 cancelled, fired, requests>>

\* a catch that keeps the previous result
CatchKeepsPokemon(r, msg) ==
  /\ error' = msg
  /\ loading' = FALSE
  /\ inflight' = inflight \ {r}
  /\ UNCHANGED <<searchTerm, pokemon, hasSearched, mounted, timers, timer, nextId,
                 cancelled, fired, requests>>

\* catch (err) and finally: lines 44-49
CatchFinally(r, msg) ==
  /\ error' = msg
  /\ pokemon' = None
  /\ loading' = FALSE
  /\ inflight' = inflight \ {r}
  /\ UNCHANGED <<searchTerm, hasSearched, mounted, timers, timer, nextId,
                 cancelled, fired, requests>>

\* fetch rejects (network failure)
FetchRejects(r) ==
  /\ r.resp.kind = "reject"
  /\ CatchFinally(r, FetchFailedMsg)

\* response.ok is false: lines 28-30
BadStatus(r) ==
  /\ r.resp.kind = "status"
  /\ CatchFinally(r, NotFoundMsg)

\* response.json() throws
JsonThrows(r) ==
  /\ r.resp.kind = "badjson"
  /\ CatchFinally(r, JsonErrorMsg)

\* the mapping of the body throws: lines 35-43
MapThrows(r) ==
  /\ r.resp.kind = "ok"
  /\ ImageThrows(Body(r.resp).sprites)
  /\ CatchFinally(r, TypeErrorMsg)

\* a success path that returns before the flag is reset
SuccessNoFinally(r) ==
  /\ r.resp.kind = "ok"
  /\ ~ImageThrows(Body(r.resp).sprites)
  /\ pokemon' = Some(MapPokemon(Body(r.resp)))
  /\ inflight' = inflight \ {r}
  /\ UNCHANGED <<searchTerm, loading, error, hasSearched, mounted, timers, timer,
                 nextId, cancelled, fired, requests>>

\* a success path that also resets hasSearched
SuccessResetsFlag(r) ==
  /\ r.resp.kind = "ok"
  /\ ~ImageThrows(Body(r.resp).sprites)
  /\ pokemon' = Some(MapPokemon(Body(r.resp)))
  /\ loading' = FALSE
  /\ hasSearched' = FALSE
  /\ inflight' = inflight \ {r}
  /\ UNCHANGED <<searchTerm, error, mounted, timers, timer, nextId,
                 cancelled, fired, requests>>

\* a success path that drops the answer of a request that is not the latest
SuccessIfLatest(r) ==
  /\ r.resp.kind = "ok"
  /\ ~ImageThrows(Body(r.resp).sprites)
  /\ pokemon' = IF r.seq = Len(requests) THEN Some(MapPokemon(Body(r.resp))) ELSE pokemon
  /\ loading' = FALSE
  /\ inflight' = inflight \ {r}
  /\ UNCHANGED <<searchTerm, error, hasSearched, mounted, timers, timer, nextId,
                 cancelled, fired, requests>>

\* success: lines 32-43, then finally
Success(r) ==
  /\ r.resp.kind = "ok"
  /\ ~ImageThrows(Body(r.resp).sprites)
  /\ pokemon' = Some(MapPokemon(Body(r.resp)))
  /\ loading' = FALSE
  /\ inflight' = inflight \ {r}
  /\ UNCHANGED <<searchTerm, error, hasSearched, mounted, timers, timer, nextId,
                 cancelled, fired, requests>>

\* the awaited request of r completes and searchPokemon runs to its end
Complete(r) ==
  /\ r \in inflight
  /\ \/ FetchRejects(r)
     \/ BadStatus(r)
     \/ JsonThrows(r)
     \/ MapThrows(r)
     \/ Success(r)

Next ==
  \/ \E value \in Terms : HandleInputChange(value)
  \/ Unmount
  \/ \E d \in {DebounceMs \div 2, DebounceMs} : Advance(d)
  \/ \E t \in timers : TimerFires(t)
  \/ \E r \in inflight : Complete(r)

Spec == Init /\ [][Next]_vars

TypeOK ==
  /\ searchTerm \in Terms
  /\ loading \in BOOLEAN
  /\ hasSearched \in BOOLEAN
  /\ mounted \in BOOLEAN
  /\ Len(requests) <= MaxRequests
\* ================================================================== claims
\* a step in which searchPokemon issues a request
IsStart == Len(requests') > Len(requests)
\* a step in which an awaited request completes
IsCompletion == inflight' # inflight /\ inflight' \subseteq inflight
\* the timer whose callback runs in this step
FiredNow == {t \in timers : t.id \in fired' \ fired}

CancelledIds == {c.id : c \in cancelled}

\* C1: a timer cleared by a later change of the term (or by unmount) never
\* runs its lookup and no request is issued for it; every request comes from
\* a timer that fired; typing "pik" and then "pikachu" within the quiet
\* interval (the only two keystrokes) issues exactly one request, for
\* "pikachu".
C1_DebounceCancellation ==
  /\ CancelledIds \cap fired = {}
  /\ \A c \in cancelled : \A t \in timers : t.id # c.id
  /\ \A i \in 1..Len(requests) :
       requests[i].timer \in fired /\ requests[i].timer \notin CancelledIds
  /\ ( /\ \E c \in cancelled : c.id = 2 /\ c.term = PIK /\ c.elapsed < DebounceMs
       /\ searchTerm = PIKACHU
       /\ nextId = 4
       /\ 3 \in fired )
     => requests = << [name |-> PIKACHU, timer |-> 3] >>

C1_Witness ==
  /\ \E c \in cancelled : c.id = 2 /\ c.term = PIK /\ c.elapsed < DebounceMs
  /\ searchTerm = PIKACHU
  /\ nextId = 4
  /\ requests = << [name |-> PIKACHU, timer |-> 3] >>

\* C2: at most one of the loading, error, result and welcome panels is
\* rendered in every reachable state.
C2_PanelsExclusive == Cardinality(Panels) <= 1

\* C3: loading is true if and only if at least one started request has not
\* yet completed.
C3_LoadingIffOutstanding == loading <=> (inflight # {})

\* C4 as stated: a new non-empty lookup leaves error empty and pokemon null,
\* and they stay so until some request completes.
C4_StartClearsBoth ==
  [][ /\ IsStart => (error' = "" /\ pokemon' = None)
      /\ (~IsCompletion /\ error = "" /\ pokemon = None)
           => (error' = "" /\ pokemon' = None) ]_vars

\* C4 amended: a new non-empty lookup clears error and raises loading but
\* keeps pokemon; until some request completes error stays empty, loading
\* stays true (so the result panel is not rendered) and pokemon is only
\* ever kept or set to null.
C4_StartClearsError ==
  [][ /\ IsStart => (error' = "" /\ loading' /\ pokemon' = pokemon /\ ~ResultPanel')
      /\ ~IsCompletion => /\ error = "" => error' = ""
                          /\ loading => (loading' /\ ~ResultPanel')
                          /\ pokemon' \in {pokemon, None} ]_vars

C4_Witness == loading /\ error = "" /\ pokemon # None /\ Len(requests) = 2

\* C5: while loading is true neither the error panel nor the result panel
\* is rendered, so the rendered error panel satisfies 'error non-empty and
\* hasSearched and not loading'.
C5_LoadingSuppresses ==
  /\ loading => (~ErrorPanel /\ ~ResultPanel)
  /\ ErrorPanel <=> (error # "" /\ hasSearched /\ ~loading)

C5_Witness ==
  /\ loading /\ hasSearched /\ pokemon # None
  /\ \E r \in inflight : r.seq = 2

\* C6: once the lookup for an empty term has run and the term is still
\* empty, pokemon is null, error is empty and hasSearched is false.
C6_EmptyStaysCleared ==
  (searchTerm = EMPTY /\ timer \in fired)
    => (pokemon = None /\ error = "" /\ ~hasSearched)

\* C7: with no request in flight, the lookup run for an empty term issues no
\* request, sets pokemon to null, error to empty and hasSearched to false,
\* leaves loading unchanged and leaves the welcome panel alone on screen.
C7_ClearResets ==
  [][ (inflight = {} /\ \E t \in FiredNow : t.term = EMPTY)
        => /\ requests' = requests
           /\ inflight' = {}
           /\ pokemon' = None
           /\ error' = ""
           /\ ~hasSearched'
           /\ loading' = loading
           /\ Panels' = {"welcome"} ]_vars

C7_Witness ==
  /\ searchTerm = EMPTY /\ timer \in fired /\ timer > 1
  /\ Len(requests) > 0 /\ inflight = {}
  /\ pokemon = None /\ error = "" /\ ~hasSearched
  /\ Panels = {"welcome"}

\* C8: every non-empty lookup attempt sets loading to true at its start and
\* to false at its completion, whatever the outcome; an attempt completes
\* once, and nothing but a completion lowers the flag.
C8_LoadingResetOnce ==
  [][ /\ IsStart => loading'
      /\ IsCompletion => (~loading' /\ Cardinality(inflight \ inflight') = 1)
      /\ (loading /\ ~loading') => IsCompletion
      /\ \A r \in inflight' \ inflight : IsStart /\ r.seq = Len(requests') ]_vars

C8_Witness ==
  /\ ~loading /\ inflight = {} /\ Len(requests) = 2
  /\ error = TypeErrorMsg

\* C9: a completion with a non-success status sets error to the fixed
\* message and pokemon to null; a completion by an exception sets error to
\* the exception's message and pokemon to null; both leave hasSearched and
\* the search term unchanged and end the lookup.
FailureMsg(resp) ==
  CASE resp.kind = "status" -> NotFoundMsg
    [] resp.kind = "reject" -> FetchFailedMsg
    [] resp.kind = "badjson" -> JsonErrorMsg
    [] OTHER -> TypeErrorMsg

IsFailure(resp) == resp.kind # "ok" \/ ~resp.sprites.hasOther \/ ~resp.sprites.hasArtwork

C9_FailuresBecomeState ==
  [][ \A r \in inflight \ inflight' :
        IsFailure(r.resp)
          => /\ error' = FailureMsg(r.resp)
             /\ pokemon' = None
             /\ hasSearched' = hasSearched
             /\ searchTerm' = searchTerm
             /\ inflight' = inflight \ {r} ]_vars

C9_Witness ==
  /\ error = NotFoundMsg /\ pokemon = None /\ hasSearched
  /\ inflight = {} /\ Len(requests) = 2 /\ ~loading

\* C10 as stated: hasSearched starts false, becomes true when a non-empty
\* lookup is attempted, and falls back to false only by the lookup run for
\* an empty search term; completions and keystrokes leave it alone.
C10_ResetOnlyByEmptyTerm ==
  /\ ~hasSearched
  /\ [][ /\ (hasSearched /\ ~hasSearched') => \E t \in FiredNow : t.term = EMPTY
         /\ (~hasSearched /\ hasSearched') => IsStart
         /\ IsStart => hasSearched'
         /\ (IsCompletion \/ searchTerm' # searchTerm) => hasSearched' = hasSearched ]_vars

\* C10 amended: the same, where the resetting lookup is the one run for a
\* term that is empty after trimming (empty or whitespace only), and the
\* flag rises by a lookup for a term that is not.
C10_ResetOnlyByBlankTerm ==
  /\ ~hasSearched
  /\ [][ /\ (hasSearched /\ ~hasSearched') => \E t \in FiredNow : Trim(t.term) = EMPTY
         /\ (~hasSearched /\ hasSearched') =>
              (IsStart /\ \E t \in FiredNow : Trim(t.term) # EMPTY)
         /\ IsStart => hasSearched'
         /\ (IsCompletion \/ searchTerm' # searchTerm) => hasSearched' = hasSearched ]_vars

C10_Witness ==
  /\ searchTerm = BLANK /\ timer \in fired
  /\ ~hasSearched /\ Len(requests) > 0
\* C11: completions are not guarded against arriving out of order: the
\* completion of a request that is not the most recently issued one still
\* overwrites pokemon (on success) or error and pokemon (on failure), so a
\* quiescent state can display the answer of the earlier request.
C11_StaleCompletionOverwrites ==
  [][ \A r \in inflight \ inflight' :
        r.seq < Len(requests)
          => IF IsFailure(r.resp)
             THEN error' = FailureMsg(r.resp) /\ pokemon' = None
             ELSE pokemon' = Some(MapPokemon(Body(r.resp))) ]_vars

\* both requests were in flight together, the later one (for "pik") failed
\* first and the earlier one (for "pikachu") then succeeded
C11_Witness ==
  /\ Len(requests) = 2
  /\ requests[1].name = PIKACHU /\ requests[2].name = PIK
  /\ inflight = {}
  /\ searchTerm = PIK
  /\ pokemon # None /\ error # ""

\* C12 as stated: at most one lookup is pending, it is for the current
\* term, each timer firing with a non-empty term issues exactly one request
\* for that term, and nothing else issues a request.
C12_SingleSlotNonEmpty ==
  /\ [](Cardinality(timers) <= 1 /\ \A t \in timers : t.term = searchTerm)
  /\ [][ /\ \A t \in FiredNow :
              t.term # EMPTY
                => requests' = Append(requests, [name |-> ToLowerCase(t.term), timer |-> t.id])
         /\ requests' # requests
              => (Cardinality(FiredNow) = 1 /\ Len(requests') = Len(requests) + 1) ]_vars

\* C12 amended: the same, where the firing that issues a request is the one
\* whose term is non-empty after trimming; a firing with an empty or
\* whitespace-only term issues none.
C12_SingleSlotNonBlank ==
  /\ [](Cardinality(timers) <= 1 /\ \A t \in timers : t.term = searchTerm /\ t.id = timer)
  /\ [][ /\ \A t \in FiredNow :
              IF Trim(t.term) # EMPTY
              THEN requests' = Append(requests, [name |-> ToLowerCase(t.term), timer |-> t.id])
              ELSE requests' = requests
         /\ requests' # requests
              => (Cardinality(FiredNow) = 1 /\ Len(requests') = Len(requests) + 1) ]_vars

C12_Witness ==
  /\ requests = << [name |-> PIKACHU, timer |-> 2] >>
  /\ searchTerm = BLANK /\ timer = 3 /\ 3 \in fired
  /\ timers = {}
\* the preferred artwork URL is present in data.sprites
PreferredPresent(sp) ==
  sp.hasOther /\ sp.hasArtwork /\ sp.artwork \notin {Null, Undefined}

\* C13: a successful response ends the lookup with pokemon non-null and
\* error empty; its image is the preferred artwork URL when present and the
\* default sprite URL when the preferred one is absent or null at any level
\* of the sprites structure.
C13_ImageFallback ==
  [][ \A r \in inflight \ inflight' :
        r.resp.kind = "ok"
          => /\ pokemon' # None
             /\ error' = ""
             /\ pokemon'[1].image =
                  IF PreferredPresent(r.resp.sprites)
                  THEN r.resp.sprites.artwork
                  ELSE r.resp.sprites.front_default ]_vars

\* C14: in every reachable state at least one of the four panels is
\* rendered: the state hasSearched, not loading, error empty and pokemon
\* null is unreachable.
C14_NeverBlank ==
  /\ Panels # {}
  /\ ~(hasSearched /\ ~loading /\ error = "" /\ pokemon = None)

\* a request failed after an empty lookup had cleared the view: the error
\* panel is held back by hasSearched and the welcome panel is shown
C14_Witness ==
  /\ ~loading /\ ~hasSearched
  /\ error # "" /\ pokemon = None
  /\ Panels = {"welcome"}
\* ------------------------------------------------------- sequential use
\* the debounced lookup runs only when no request is in flight
SeqTimerFires(t) ==
  /\ inflight = {}
  /\ TimerFires(t)

SeqNext ==
  \/ \E value \in Terms : HandleInputChange(value)
  \/ Unmount
  \/ \E d \in {DebounceMs \div 2, DebounceMs} : Advance(d)
  \/ \E t \in timers : SeqTimerFires(t)
  \/ \E r \in inflight : Complete(r)

SeqSpec == Init /\ [][SeqNext]_vars

\* C15: when every request completes before the next debounced lookup runs,
\* exactly one panel is rendered in every state, and a completion leaves the
\* result panel when the lookup succeeded and the error panel when it failed.
C15_SequentialOnePanel ==
  /\ [](Cardinality(Panels) = 1)
  /\ [][ \A r \in inflight \ inflight' :
           Panels' = IF IsFailure(r.resp) THEN {"error"} ELSE {"result"} ]_vars

\* a failed lookup for "pik" followed by a successful one for "pikachu"
C15_Witness ==
  /\ Len(requests) = 2 /\ requests[1].name = PIK
  /\ inflight = {}
  /\ Panels = {"result"}

\* ----------------------------------------------------------- fairness
\* time passes, a due timer runs its callback, a request gets its answer
FairSpec ==
  /\ Spec
  /\ WF_vars(\E d \in {DebounceMs \div 2, DebounceMs} : Advance(d))
  /\ WF_vars(\E t \in timers : TimerFires(t))
  /\ WF_vars(\E r \in inflight : Complete(r))

Quiescent == timers = {} /\ inflight = {}

\* C16: once the term stops changing, the system becomes quiescent (no
\* pending timer, no request in flight) with loading false, and stays so.
C16_LoadingSettles == <>[](~loading /\ Quiescent)

C16_Witness ==
  /\ ~loading /\ Quiescent
  /\ mounted /\ Len(requests) = 2
====
